---- MODULE Spec2Model ----
(***************************************************************************)
(* Model of lambda/index.py: the module-level configuration (NGROK_URL,    *)
(* full_url) and lambda_handler, the relay that parses an API Gateway      *)
(* event, posts the message to the generation service and maps the outcome *)
(* to an HTTP response.                                                    *)
(*                                                                         *)
(* Python values are tagged records: None, str, number (by its literal),   *)
(* bool, list (a sequence) and dict (a sequence of <<key, value>> pairs in *)
(* insertion order).  Text is a TLA+ string; json.dumps and json.loads     *)
(* convert between values and text.                                        *)
(***************************************************************************)
EXTENDS Integers, Sequences, FiniteSets, TLC

VARIABLES
    mode,                  \* which inputs the environment offers (fixed by Init)
    environ,               \* os.environ at import time
    module,                \* "unloaded" | "loaded" | "failed" (import raised)
    NGROK_URL,             \* module global, line 8
    full_url,              \* module global, line 13
    pc,                    \* per invocation: position in lambda_handler
    event,                 \* per invocation: the event argument
    context,               \* per invocation: the context argument
    heap,                  \* per invocation: the list objects it holds, by reference
    conversation_history,  \* per invocation: local of line 34
    message,               \* per invocation: local of line 33
    messages,              \* per invocation: local of line 49
    headers,               \* per invocation: local of line 60
    fastapi_payload,       \* per invocation: local of line 52
    posts,                 \* per invocation: the outbound requests it has sent
    reply,                 \* per invocation: the outcome of requests.post
    assistant_response,    \* per invocation: local of line 102
    result                 \* per invocation: what the call produced

vars == <<mode, environ, module, NGROK_URL, full_url, pc, event, context, heap,
          conversation_history, message, messages, headers, fastapi_payload,
          posts, reply, assistant_response, result>>

-----------------------------------------------------------------------------
(* Bounds of the model *)

\* number of handler invocations that may be in flight
NInv == 2
\* longest conversationHistory a caller supplies
MaxHist == 2

Invs == 1..NInv

-----------------------------------------------------------------------------
(* Python values *)

PyNone == [t |-> "null"]
PyStr(s) == [t |-> "str", v |-> s]
PyNum(lit) == [t |-> "num", v |-> lit]
PyBool(b) == [t |-> "bool", v |-> b]
PyList(items) == [t |-> "list", v |-> items]
PyDict(pairs) == [t |-> "dict", v |-> pairs]
\* a reference to a list object of the invocation's heap
PyRef(r) == [t |-> "ref", v |-> r]
\* a local that has not been assigned, a key that is not there
Unset == [t |-> "unset"]

\* bool(x) for the values the handler tests
Truthy(x) ==
    CASE x.t = "null" -> FALSE
      [] x.t = "unset" -> FALSE
      [] x.t = "str" -> x.v # ""
      [] x.t = "bool" -> x.v
      [] x.t = "list" -> Len(x.v) > 0
      [] x.t = "dict" -> Len(x.v) > 0
      [] OTHER -> TRUE

\* the keys of a dict's pair sequence
DictKeys(pairs) == {pairs[k][1] : k \in DOMAIN pairs}

\* d[key] for a dict that holds key
DictGet(pairs, key) == pairs[CHOOSE k \in DOMAIN pairs : pairs[k][1] = key][2]

\* d.get(key, default)
DictGetDefault(pairs, key, default) ==
    IF key \in DictKeys(pairs) THEN DictGet(pairs, key) ELSE default

\* d[key] = value: an existing key keeps its place, a new one goes last
DictSet(pairs, key, value) ==
    IF key \in DictKeys(pairs)
    THEN [k \in DOMAIN pairs |-> IF pairs[k][1] = key THEN <<key, value>> ELSE pairs[k]]
    ELSE Append(pairs, <<key, value>>)

-----------------------------------------------------------------------------
(* Strings *)

UpperAlpha == "ABCDEFGHIJKLMNOPQRSTUVWXYZ"
LowerAlpha == "abcdefghijklmnopqrstuvwxyz"
Digits == "0123456789"

CharAt(s, k) == SubSeq(s, k, k)

\* str.lower() of one character
LowerChar(c) ==
    IF \E k \in 1..Len(UpperAlpha) : CharAt(UpperAlpha, k) = c
    THEN CharAt(LowerAlpha, CHOOSE k \in 1..Len(UpperAlpha) : CharAt(UpperAlpha, k) = c)
    ELSE c

RECURSIVE Lower(_)
\* str.lower()
Lower(s) == IF s = "" THEN "" ELSE LowerChar(CharAt(s, 1)) \o Lower(SubSeq(s, 2, Len(s)))

RECURSIVE RStrip(_, _)
\* str.rstrip(c) for a one-character c
RStrip(s, c) ==
    IF s # "" /\ CharAt(s, Len(s)) = c THEN RStrip(SubSeq(s, 1, Len(s) - 1), c) ELSE s

RECURSIVE IntStr(_)
\* str(n) for n >= 0
IntStr(n) ==
    IF n < 10 THEN CharAt(Digits, n + 1)
    ELSE IntStr(n \div 10) \o CharAt(Digits, (n % 10) + 1)

\* s[:n]
Prefix(s, n) == SubSeq(s, 1, IF Len(s) < n THEN Len(s) ELSE n)

RECURSIVE Repeat(_, _)
\* n copies of s
Repeat(s, n) ==
    IF n = 0 THEN ""
    ELSE IF n % 2 = 0 THEN LET half == Repeat(s, n \div 2) IN half \o half
    ELSE s \o Repeat(s, n - 1)

-----------------------------------------------------------------------------
(* json.dumps and json.loads *)

RECURSIVE JsonDumps(_)
RECURSIVE DumpItems(_)
RECURSIVE DumpPairs(_)
\* json.dumps(x) with the default separators
JsonDumps(x) ==
    CASE x.t = "null" -> "null"
      [] x.t = "str" -> "\"" \o x.v \o "\""
      [] x.t = "num" -> x.v
      [] x.t = "bool" -> IF x.v THEN "true" ELSE "false"
      [] x.t = "list" -> "[" \o DumpItems(x.v) \o "]"
      [] x.t = "dict" -> "{" \o DumpPairs(x.v) \o "}"
DumpItems(items) ==
    IF Len(items) = 0 THEN ""
    ELSE IF Len(items) = 1 THEN JsonDumps(items[1])
    ELSE JsonDumps(items[1]) \o ", " \o DumpItems(Tail(items))
DumpPairs(pairs) ==
    IF Len(pairs) = 0 THEN ""
    ELSE IF Len(pairs) = 1 THEN "\"" \o pairs[1][1] \o "\": " \o JsonDumps(pairs[1][2])
    ELSE "\"" \o pairs[1][1] \o "\": " \o JsonDumps(pairs[1][2]) \o ", " \o DumpPairs(Tail(pairs))

\* the documents json.loads can be handed: request bodies and generation replies
\* a conversation turn, lines 50 and 133-136
Turn(role, content) == PyDict(<<<<"role", PyStr(role)>>, <<"content", content>>>>)
Turns == {Turn("user", PyStr("q")), Turn("assistant", PyStr("r"))}
Histories == UNION {[1..n -> Turns] : n \in 0..MaxHist}
Messages == {"hi", "yo"}
BodyDocs ==
    {PyNum("5"), PyList(<<PyStr("message")>>), PyDict(<<>>),
     PyDict(<<<<"conversationHistory", PyList(<<>>)>>>>)}
    \cup {PyDict(<<<<"message", PyStr(m)>>>>) : m \in Messages}
    \cup {PyDict(<<<<"message", PyStr(m)>>, <<"conversationHistory", PyList(h)>>>>) :
             m \in Messages, h \in Histories}
    \cup {PyDict(<<<<"message", PyStr(m)>>, <<"conversationHistory", PyNone>>>>) :
             m \in Messages}
UpstreamDocs ==
    {PyNum("5"), PyStr("generated_text"), PyList(<<PyStr("generated_text")>>),
     PyDict(<<<<"foo", PyStr("bar")>>>>),
     PyDict(<<<<"generated_text", PyStr("hello")>>>>)}
JsonDocs == BodyDocs \cup UpstreamDocs

\* the text of every document, computed once
DumpTable == [d \in JsonDocs |-> JsonDumps(d)]

\* json.loads(s): the document whose text s is, or JSONDecodeError
JsonLoads(s) ==
    IF \E d \in JsonDocs : DumpTable[d] = s
    THEN [ok |-> TRUE, value |-> CHOOSE d \in JsonDocs : DumpTable[d] = s]
    ELSE [ok |-> FALSE, value |-> PyNone]

-----------------------------------------------------------------------------
(* Python operators that may raise *)

Error(type, msg) == [type |-> type, msg |-> msg]
NoError == Error("", "")

\* whether string sub occurs in string s
IsSubstring(sub, s) ==
    \E a \in 1..(Len(s) + 1) : a + Len(sub) - 1 <= Len(s) /\ SubSeq(s, a, a + Len(sub) - 1) = sub

\* key in x, for a string key: "yes", "no", or "TypeError" where x is no container
PyContains(key, x) ==
    CASE x.t = "dict" -> IF key \in DictKeys(x.v) THEN "yes" ELSE "no"
      [] x.t = "list" -> IF \E k \in DOMAIN x.v : x.v[k] = PyStr(key) THEN "yes" ELSE "no"
      [] x.t = "str" -> IF IsSubstring(key, x.v) THEN "yes" ELSE "no"
      [] OTHER -> "TypeError"

\* x[key], for a string key: the value, or the exception raised
PySubscript(x, key) ==
    CASE x.t = "dict" ->
           IF key \in DictKeys(x.v)
           THEN [ok |-> TRUE, value |-> DictGet(x.v, key), error |-> NoError]
           ELSE [ok |-> FALSE, value |-> PyNone,
                 error |-> Error("KeyError", "'" \o key \o "'")]
      [] x.t \in {"list", "str"} ->
           [ok |-> FALSE, value |-> PyNone,
            error |-> Error("TypeError", "indices must be integers")]
      [] OTHER ->
           [ok |-> FALSE, value |-> PyNone,
            error |-> Error("TypeError", "object is not subscriptable")]

-----------------------------------------------------------------------------
(* Module load, lines 8-13 *)

DEFAULT_NGROK_URL == "https://b05b-34-16-222-244.ngrok-free.app"
GENERATE_PATH == "/generate"
REQUEST_TIMEOUT == 30
ERROR_DETAIL_CHARS == 500

\* os.environ.get("NGROK_URL", default), line 8
EnvironGet(env) == DictGetDefault(env, "NGROK_URL", DEFAULT_NGROK_URL)

\* line 9: the import raises ValueError when the value is empty
LoadFails(url) == url = ""

\* line 13
FullUrl(url) == RStrip(url, "/") \o GENERATE_PATH

-----------------------------------------------------------------------------
(* lambda_handler, step by step *)

\* lines 16-19: context.invoked_function_arn and context.log_stream_name are read,
\* the event is dumped; this is outside the try block
LogStartError(ctx) ==
    IF ctx.t = "null"
    THEN Error("AttributeError", "'NoneType' object has no attribute 'invoked_function_arn'")
    ELSE NoError

\* lines 22-27: the authorizer claims are looked up and logged
ClaimsError(ev) ==
    IF "requestContext" \notin DictKeys(ev.v) THEN NoError
    ELSE LET rc == DictGet(ev.v, "requestContext")
             hasAuth == PyContains("authorizer", rc)
         IN  IF hasAuth = "TypeError"
             THEN Error("TypeError", "argument of type 'NoneType' is not iterable")
             ELSE IF hasAuth = "no" THEN NoError
             ELSE LET auth == DictGet(rc.v, "authorizer")
                  IN  IF ~Truthy(auth) THEN NoError
                      ELSE LET hasClaims == PyContains("claims", auth)
                           IN  IF hasClaims = "TypeError"
                               THEN Error("TypeError", "argument is not iterable")
                               ELSE IF hasClaims = "no" THEN NoError
                               ELSE LET user_info == DictGet(auth.v, "claims")
                                    IN  IF user_info.t = "dict" THEN NoError
                                        ELSE Error("AttributeError",
                                                   "object has no attribute 'get'")

\* lines 30-34: the body is parsed; caught is whether the except clause of line 37
\* (JSONDecodeError, KeyError, ValueError) takes the error
ParseBody(ev) ==
    LET failed(err, caught) ==
            [ok |-> FALSE, caught |-> caught, error |-> err,
             message |-> Unset, conversation_history |-> Unset]
    IN  IF "body" \notin DictKeys(ev.v) \/ ~Truthy(DictGet(ev.v, "body"))
        THEN failed(Error("ValueError", "Request body is missing or empty."), TRUE)
        ELSE LET parsed == JsonLoads(DictGet(ev.v, "body").v)
             IN  IF ~parsed.ok
                 THEN failed(Error("JSONDecodeError",
                                   "Expecting value: line 1 column 1 (char 0)"), TRUE)
                 ELSE LET msg == PySubscript(parsed.value, "message")
                      IN  IF ~msg.ok
                          THEN failed(msg.error, msg.error.type = "KeyError")
                          ELSE [ok |-> TRUE, caught |-> FALSE, error |-> NoError,
                                message |-> msg.value,
                                conversation_history |->
                                    DictGetDefault(parsed.value.v, "conversationHistory",
                                                   PyList(<<>>))]

\* the headers of every response
BaseResponseHeaders ==
    <<<<"Content-Type", "application/json">>, <<"Access-Control-Allow-Origin", "*">>>>

Response(statusCode, hdrs, body) ==
    [statusCode |-> statusCode, headers |-> hdrs, body |-> body]

\* lines 39-46
BadRequestResponse(err) ==
    Response(400, BaseResponseHeaders,
             JsonDumps(PyDict(<<<<"success", PyBool(FALSE)>>,
                                <<"error", PyStr("Invalid request body: " \o err.msg)>>>>)))

\* an error text that carries the exception's message as the log line does
ErrorTextWithMessage(err) ==
    "An internal server error occurred. Error: " \o err.type \o " - " \o err.msg

\* line 171: the text handed to the caller for an error
ErrorText(err) ==
    "An internal server error occurred. Check logs for details. Error type: " \o err.type

\* lines 155-174: the top-level except clause
ErrorResponse(err) ==
    Response(500, BaseResponseHeaders,
             JsonDumps(PyDict(<<<<"success", PyBool(FALSE)>>,
                                <<"error", PyStr(ErrorText(err))>>>>)))

\* lines 140-153
SuccessResponse(text, msgs) ==
    Response(200,
             BaseResponseHeaders \o
             <<<<"Access-Control-Allow-Headers",
                 "Content-Type,X-Amz-Date,Authorization,X-Api-Key,X-Amz-Security-Token">>,
               <<"Access-Control-Allow-Methods", "OPTIONS,POST">>>>,
             JsonDumps(PyDict(<<<<"success", PyBool(TRUE)>>,
                                <<"response", text>>,
                                <<"conversationHistory", PyList(msgs)>>>>)))

\* a handler that keeps the caller's list instead of copying it
ListAlias(hp, ref) == ref

\* line 49, list.copy(): the index of the new list object in the heap
ListCopy(hp, ref) == Len(hp) + 1

\* lines 52-58
Payload(msg) ==
    PyDict(<<<<"prompt", msg>>, <<"max_new_tokens", PyNum("512")>>,
             <<"do_sample", PyBool(TRUE)>>, <<"temperature", PyNum("0.7")>>,
             <<"top_p", PyNum("0.9")>>>>)

\* a headers dict kept at module level, which another invocation has filled
SharedHeaders(i) ==
    IF \E j \in Invs \ {i} : headers[j] # <<>>
    THEN headers[CHOOSE j \in Invs \ {i} : headers[j] # <<>>]
    ELSE <<<<"accept", PyStr("application/json")>>,
           <<"Content-Type", PyStr("application/json")>>,
           <<"User-Agent", PyStr("AWS-Lambda-Function/1.0")>>>>

\* lines 60-64
BaseHeaders(i) ==
    <<<<"accept", PyStr("application/json")>>,
      <<"Content-Type", PyStr("application/json")>>,
      <<"User-Agent", PyStr("AWS-Lambda-Function/1.0")>>>>

\* a lookup that keeps the letter case of the header names
HeaderKeyAsSent(name) == name

\* the key under which line 66 files a header
HeaderKey(name) == Lower(name)

RECURSIVE LowerKeys(_)
\* line 66: {k.lower(): v for k, v in items}
LowerKeys(pairs) ==
    IF Len(pairs) = 0 THEN <<>>
    ELSE LET last == pairs[Len(pairs)]
         IN  DictSet(LowerKeys(SubSeq(pairs, 1, Len(pairs) - 1)), HeaderKey(last[1]), last[2])

\* lines 66-69 on the dict of request headers
ForwardAuth(hdrs, eventHeaders) ==
    LET auth_header == DictGetDefault(LowerKeys(eventHeaders), "authorization", PyNone)
    IN  IF Truthy(auth_header) THEN DictSet(hdrs, "Authorization", auth_header) ELSE hdrs

\* lines 81-86: the request handed to requests.post
OutboundRequest(url, hdrs, payload) ==
    [method |-> "POST", url |-> url, headers |-> hdrs, json |-> payload,
     timeout |-> REQUEST_TIMEOUT]

\* a client that sends the request a second time
SendPostTwice(sent, req) == Append(Append(sent, req), req)

\* requests.post puts the request on the wire
SendPost(sent, req) == Append(sent, req)

\* the classes an exception of class cls is an instance of (requests.exceptions, json).
\* response.json() raises json.JSONDecodeError or a subclass of it, or, where
\* simplejson is installed, a requests error that is no json.JSONDecodeError
\* (requests.JSONDecodeError) or a bare ValueError subclass (simplejson.JSONDecodeError)
ExcBases(cls) ==
    CASE cls = "ConnectTimeout" -> {"ConnectTimeout", "ConnectionError", "Timeout", "RequestException"}
      [] cls = "ReadTimeout" -> {"ReadTimeout", "Timeout", "RequestException"}
      [] cls = "ConnectionError" -> {"ConnectionError", "RequestException"}
      [] cls = "TooManyRedirects" -> {"TooManyRedirects", "RequestException"}
      [] cls = "HTTPError" -> {"HTTPError", "RequestException"}
      [] cls = "json.JSONDecodeError" -> {"json.JSONDecodeError", "ValueError"}
      [] cls = "requests.JSONDecodeError" -> {"InvalidJSONError", "RequestException", "ValueError"}
      [] cls = "simplejson.JSONDecodeError" -> {"ValueError"}
      [] OTHER -> {cls}

\* type(error).__name__
TypeName(cls) ==
    IF cls \in {"json.JSONDecodeError", "requests.JSONDecodeError", "simplejson.JSONDecodeError"}
    THEN "JSONDecodeError"
    ELSE cls

Raised(cls, msg) == [raised |-> TRUE, cls |-> cls, msg |-> msg, value |-> PyNone]
Value(x) == [raised |-> FALSE, cls |-> "", msg |-> "", value |-> x]

\* Response.raise_for_status(), line 93: HTTPError for a 4xx or 5xx status
RaisesForStatus(status_code) == 400 <= status_code /\ status_code < 600

\* bool(response), line 119: Response.ok
ResponseOk(r) == ~RaisesForStatus(r.status_code)

\* lines 81-102: the try block, given what requests.post did
TryBlock(r, url) ==
    IF r.kind = "raise" THEN Raised(r.cls, r.msg)
    ELSE IF RaisesForStatus(r.status_code)
    THEN Raised("HTTPError", IntStr(r.status_code) \o " Error: " \o r.reason \o " for url: " \o url)
    ELSE LET parsed == JsonLoads(r.text)
         IN  IF ~parsed.ok
             THEN Raised(r.decoder, "Expecting value: line 1 column 1 (char 0)")
             ELSE LET has == PyContains("generated_text", parsed.value)
                  IN  IF has = "TypeError"
                      THEN Raised("TypeError", "argument is not iterable")
                      ELSE IF has = "no"
                      THEN Raised("ValueError",
                                  "Invalid response format from FastAPI: 'generated_text' key missing.")
                      ELSE LET text == PySubscript(parsed.value, "generated_text")
                           IN  IF text.ok THEN Value(text.value)
                               ELSE Raised(text.error.type, text.error.msg)

\* lines 104-128: the except clauses, in order; the error that leaves the try statement
ExceptClauses(exc, r) ==
    LET bases == ExcBases(exc.cls)
    IN  IF "Timeout" \in bases
        THEN Error("Exception", "FastAPI endpoint timed out.")
        ELSE IF "ConnectionError" \in bases
        THEN Error("Exception", "FastAPI connection error: " \o exc.msg)
        ELSE IF "HTTPError" \in bases
        THEN Error("Exception",
                   "FastAPI HTTP error " \o IntStr(r.status_code) \o ". Response: "
                   \o Prefix(r.text, ERROR_DETAIL_CHARS))
        ELSE IF "json.JSONDecodeError" \in bases
        THEN Error("Exception",
                   "FastAPI returned non-JSON response: "
                   \o (IF r.kind = "response" /\ ResponseOk(r)
                       THEN Prefix(r.text, ERROR_DETAIL_CHARS) ELSE "N/A"))
        ELSE IF "RequestException" \in bases
        THEN Error("Exception", "FastAPI request failed: " \o exc.msg)
        ELSE Error(TypeName(exc.cls), exc.msg)

\* lines 79-128: the generated text, or the error raised to the top level
Classify(r, url) ==
    LET tried == TryBlock(r, url)
    IN  IF tried.raised
        THEN [ok |-> FALSE, assistant_response |-> Unset, error |-> ExceptClauses(tried, r)]
        ELSE [ok |-> TRUE, assistant_response |-> tried.value, error |-> NoError]

-----------------------------------------------------------------------------
(* The environment: what the platform and the generation service may supply *)

\* os.environ without NGROK_URL, with it empty, and with a base URL
Environs ==
    {<<>>, <<<<"NGROK_URL", "">>>>, <<<<"NGROK_URL", "https://gen.example">>>>,
     <<<<"NGROK_URL", "https://gen.example/">>>>}

LambdaContext ==
    [t |-> "object",
     v |-> <<<<"invoked_function_arn", PyStr("arn:aws:lambda:relay")>>,
             <<"log_stream_name", PyStr("2026/stream")>>>>]
Contexts == {LambdaContext, PyNone}

RequestContexts ==
    {Unset, PyNone, PyDict(<<>>),
     PyDict(<<<<"authorizer", PyNone>>>>),
     PyDict(<<<<"authorizer", PyDict(<<>>)>>>>),
     PyDict(<<<<"authorizer", PyDict(<<<<"claims", PyNone>>>>)>>>>),
     PyDict(<<<<"authorizer", PyDict(<<<<"claims", PyDict(<<>>)>>>>)>>>>),
     PyDict(<<<<"authorizer",
               PyDict(<<<<"claims", PyDict(<<<<"email", PyStr("a@b.c")>>>>)>>>>)>>>>)}

Bodies ==
    {Unset, PyNone, PyStr(""), PyStr("not json")} \cup {PyStr(DumpTable[d]) : d \in BodyDocs}

HeaderDicts ==
    {Unset, PyNone, PyDict(<<>>),
     PyDict(<<<<"X-Request-Id", PyStr("r1")>>>>),
     PyDict(<<<<"Authorization", PyStr("Bearer A")>>>>),
     PyDict(<<<<"authorization", PyStr("Bearer A")>>>>),
     PyDict(<<<<"X-Request-Id", PyStr("r1")>>, <<"AUTHORIZATION", PyStr("Bearer B")>>>>),
     PyDict(<<<<"Authorization", PyStr("")>>>>),
     PyDict(<<<<"Authorization", PyStr("Bearer A")>>, <<"authorization", PyStr("Bearer B")>>>>),
     PyDict(<<<<"authorization", PyStr("Bearer B")>>, <<"Authorization", PyStr("")>>>>)}

\* the event dict with the keys that are there
MkEvent(rc, body, hdrs) ==
    PyDict(SelectSeq(<<<<"requestContext", rc>>, <<"body", body>>, <<"headers", hdrs>>>>,
                     LAMBDA p : p[2].t # "unset"))

Events == {MkEvent(rc, b, h) : rc \in RequestContexts, b \in Bodies, h \in HeaderDicts}

EventKey(ev, key) == DictGetDefault(ev.v, key, Unset)

PostRaises(cls, msg) ==
    [kind |-> "raise", cls |-> cls, msg |-> msg, status_code |-> 0, reason |-> "",
     text |-> "", decoder |-> ""]
PostReturns(status_code, reason, text, decoder) ==
    [kind |-> "response", cls |-> "", msg |-> "", status_code |-> status_code,
     reason |-> reason, text |-> text, decoder |-> decoder]

Statuses == {200, 300, 404, 503}
Reason(status_code) ==
    CASE status_code = 200 -> "OK"
      [] status_code = 300 -> "Multiple Choices"
      [] status_code = 404 -> "Not Found"
      [] status_code = 503 -> "Service Unavailable"

LongText == "<html>" \o Repeat("x", ERROR_DETAIL_CHARS)
UpstreamTexts == {"not json", LongText} \cup {DumpTable[d] : d \in UpstreamDocs}

Replies ==
    {PostRaises("ConnectTimeout", "connect timed out"),
     PostRaises("ReadTimeout", "read timed out"),
     PostRaises("ConnectionError", "connection refused"),
     PostRaises("TooManyRedirects", "exceeded 30 redirects")}
    \cup {PostReturns(st, Reason(st), txt, "json.JSONDecodeError") :
             st \in Statuses, txt \in UpstreamTexts}
    \cup {PostReturns(200, "OK", "not json", dec) :
             dec \in {"requests.JSONDecodeError", "simplejson.JSONDecodeError"}}

\* the inputs of the four settings: one invocation over every body, header dict
\* and reply; a pair of invocations, the second of an event that differs from the
\* first's in requestContext at most; concurrent invocations; one invocation
\* under every environment the module may be imported in
SmallEvents ==
    {MkEvent(rc, b, h) :
        rc \in RequestContexts,
        b \in {Unset, PyStr("not json"),
               PyStr(DumpTable[PyDict(<<<<"message", PyStr("hi")>>>>)])},
        h \in {Unset, PyDict(<<<<"Authorization", PyStr("Bearer A")>>>>)}}
SmallReplies ==
    {PostRaises("ReadTimeout", "read timed out"),
     PostRaises("ConnectionError", "connection refused")}
    \cup {PostReturns(st, Reason(st), DumpTable[d], "json.JSONDecodeError") :
             st \in {200, 300},
             d \in {PyDict(<<<<"foo", PyStr("bar")>>>>),
                    PyDict(<<<<"generated_text", PyStr("hello")>>>>)}}
    \cup {PostReturns(200, "OK", DumpTable[PyNum("5")], "json.JSONDecodeError"),
          PostReturns(200, "OK", "not json", "simplejson.JSONDecodeError")}
    \cup {PostReturns(st, Reason(st), txt, "json.JSONDecodeError") :
             st \in {200, 404, 503}, txt \in {"not json", LongText}}
ConcEvents ==
    {MkEvent(Unset, PyStr(DumpTable[d]), h) :
        d \in {PyDict(<<<<"message", PyStr("hi")>>>>),
               PyDict(<<<<"message", PyStr("yo")>>,
                        <<"conversationHistory",
                          PyList(<<Turn("user", PyStr("q"))>>)>>>>)},
        h \in {Unset, PyDict(<<<<"authorization", PyStr("Bearer B")>>>>)}}
ConcReplies ==
    {PostRaises("ReadTimeout", "read timed out"),
     PostReturns(200, "OK", DumpTable[PyDict(<<<<"generated_text", PyStr("hello")>>>>)],
                 "json.JSONDecodeError")}

\* the event with its requestContext key dropped
WithoutRequestContext(ev) == PyDict(SelectSeq(ev.v, LAMBDA p : p[1] # "requestContext"))

EnvironChoices ==
    IF mode = "load" THEN Environs ELSE {<<<<"NGROK_URL", "https://gen.example/">>>>}
ContextChoices == IF mode = "single" THEN Contexts ELSE {LambdaContext}
Invocable(i) ==
    CASE mode \in {"single", "load"} -> i = 1
      [] mode = "pair" -> i = 1 \/ (i = 2 /\ pc[1] = "done")
      [] OTHER -> TRUE
EventChoices(i) ==
    CASE mode = "single" -> Events
      [] mode = "load" -> ConcEvents
      [] mode = "pair" ->
           IF i = 1 THEN SmallEvents
           ELSE {e \in SmallEvents : WithoutRequestContext(e) = WithoutRequestContext(event[1])}
      [] OTHER -> ConcEvents
ReplyChoices ==
    CASE mode = "single" -> Replies
      [] mode = "load" -> SmallReplies
      [] mode = "pair" -> SmallReplies
      [] OTHER -> ConcReplies

-----------------------------------------------------------------------------
(* State *)

NoReply == [kind |-> "none", cls |-> "", msg |-> "", status_code |-> 0, reason |-> "",
            text |-> "", decoder |-> ""]
NoResponse == Response(0, <<>>, "")
\* the call has not ended, has returned a response (error: the error it printed on
\* lines 38 or 156, if any), or has raised out of the handler
Pending == [kind |-> "none", response |-> NoResponse, error |-> NoError]
Returned(resp, err) == [kind |-> "returned", response |-> resp, error |-> err]
Escaped(err) == [kind |-> "raised", response |-> NoResponse, error |-> err]

InitWith(m) ==
    /\ mode = m
    /\ environ \in EnvironChoices
    /\ module = "unloaded"
    /\ NGROK_URL = ""
    /\ full_url = ""
    /\ pc = [i \in Invs |-> "idle"]
    /\ event = [i \in Invs |-> Unset]
    /\ context = [i \in Invs |-> Unset]
    /\ heap = [i \in Invs |-> <<>>]
    /\ conversation_history = [i \in Invs |-> Unset]
    /\ message = [i \in Invs |-> Unset]
    /\ messages = [i \in Invs |-> Unset]
    /\ headers = [i \in Invs |-> <<>>]
    /\ fastapi_payload = [i \in Invs |-> Unset]
    /\ posts = [i \in Invs |-> <<>>]
    /\ reply = [i \in Invs |-> NoReply]
    /\ assistant_response = [i \in Invs |-> Unset]
    /\ result = [i \in Invs |-> Pending]

Init == InitWith("single")
InitPair == InitWith("pair")
InitConc == InitWith("conc")
InitLoad == InitWith("load")

moduleVars == <<mode, environ, module, NGROK_URL, full_url>>
inputVars == <<event, context>>
parseVars == <<conversation_history, message>>
buildVars == <<messages, headers, fastapi_payload>>
callVars == <<posts, reply, assistant_response>>

-----------------------------------------------------------------------------
(* Actions *)

\* the import of the module, lines 8-13
Load ==
    /\ module = "unloaded"
    /\ LET url == EnvironGet(environ)
       IN  /\ NGROK_URL' = url
           /\ IF LoadFails(url)
              THEN module' = "failed" /\ full_url' = full_url
              ELSE module' = "loaded" /\ full_url' = FullUrl(url)
    /\ UNCHANGED <<mode, environ, pc, inputVars, heap, parseVars, buildVars, callVars, result>>

\* the platform calls lambda_handler(event, context)
Invoke(i) ==
    /\ module = "loaded"
    /\ pc[i] = "idle"
    /\ Invocable(i)
    /\ \E ev \in EventChoices(i), ctx \in ContextChoices :
          /\ event' = [event EXCEPT ![i] = ev]
          /\ context' = [context EXCEPT ![i] = ctx]
    /\ pc' = [pc EXCEPT ![i] = "start"]
    /\ UNCHANGED <<moduleVars, heap, parseVars, buildVars, callVars, result>>

\* lines 155-174: an error raised inside the try block ends the call with the 500 response
Fails(i, err) ==
    /\ pc' = [pc EXCEPT ![i] = "done"]
    /\ result' = [result EXCEPT ![i] = Returned(ErrorResponse(err), err)]

\* lines 16-19
LogStart(i) ==
    /\ pc[i] = "start"
    /\ LET err == LogStartError(context[i])
       IN  IF err # NoError
           THEN /\ pc' = [pc EXCEPT ![i] = "done"]
                /\ result' = [result EXCEPT ![i] = Escaped(err)]
           ELSE /\ pc' = [pc EXCEPT ![i] = "claims"]
                /\ UNCHANGED result
    /\ UNCHANGED <<moduleVars, inputVars, heap, parseVars, buildVars, callVars>>

\* lines 22-27
ExtractClaims(i) ==
    /\ pc[i] = "claims"
    /\ LET err == ClaimsError(event[i])
       IN  IF err # NoError
           THEN Fails(i, err)
           ELSE /\ pc' = [pc EXCEPT ![i] = "parse"]
                /\ UNCHANGED result
    /\ UNCHANGED <<moduleVars, inputVars, heap, parseVars, buildVars, callVars>>

\* lines 29-46
Parse(i) ==
    /\ pc[i] = "parse"
    /\ LET p == ParseBody(event[i])
       IN  IF p.ok
           THEN /\ message' = [message EXCEPT ![i] = p.message]
                /\ IF p.conversation_history.t = "list"
                   THEN /\ heap' = [heap EXCEPT ![i] = <<p.conversation_history.v>>]
                        /\ conversation_history' = [conversation_history EXCEPT ![i] = PyRef(1)]
                   ELSE /\ heap' = heap
                        /\ conversation_history' =
                              [conversation_history EXCEPT ![i] = p.conversation_history]
                /\ pc' = [pc EXCEPT ![i] = "build"]
                /\ UNCHANGED result
           ELSE /\ IF p.caught
                   THEN /\ pc' = [pc EXCEPT ![i] = "done"]
                        /\ result' = [result EXCEPT
                                           ![i] = Returned(BadRequestResponse(p.error), p.error)]
                   ELSE Fails(i, p.error)
                /\ UNCHANGED <<heap, parseVars>>
    /\ UNCHANGED <<moduleVars, inputVars, buildVars, callVars>>

\* lines 49-72
Build(i) ==
    /\ pc[i] = "build"
    /\ LET ch == conversation_history[i]
           eh == DictGetDefault(event[i].v, "headers", PyDict(<<>>))
       IN  IF ch.t # "ref"
           THEN /\ Fails(i, Error("AttributeError",
                                  IF ch.t = "dict" THEN "'dict' object has no attribute 'append'"
                                  ELSE "object has no attribute 'copy'"))
                /\ UNCHANGED <<heap, buildVars>>
           ELSE LET ref == ListCopy(heap[i], ch.v)
                    copied == IF ref > Len(heap[i]) THEN Append(heap[i], heap[i][ch.v])
                              ELSE heap[i]
                IN  /\ heap' = [heap EXCEPT
                                  ![i] = [copied EXCEPT
                                            ![ref] = Append(@, Turn("user", message[i]))]]
                    /\ messages' = [messages EXCEPT ![i] = PyRef(ref)]
                    /\ fastapi_payload' = [fastapi_payload EXCEPT ![i] = Payload(message[i])]
                    /\ IF eh.t # "dict"
                       THEN /\ Fails(i, Error("AttributeError",
                                              "'NoneType' object has no attribute 'items'"))
                            /\ UNCHANGED headers
                       ELSE /\ headers' = [headers EXCEPT ![i] = ForwardAuth(BaseHeaders(i), eh.v)]
                            /\ pc' = [pc EXCEPT ![i] = "post"]
                            /\ UNCHANGED result
    /\ UNCHANGED <<moduleVars, inputVars, parseVars, callVars>>

\* lines 81-86: requests.post sends the request
Post(i) ==
    /\ pc[i] = "post"
    /\ posts' = [posts EXCEPT
                   ![i] = SendPost(@, OutboundRequest(full_url, headers[i], fastapi_payload[i]))]
    /\ pc' = [pc EXCEPT ![i] = "await"]
    /\ UNCHANGED <<moduleVars, inputVars, heap, parseVars, buildVars, reply,
                   assistant_response, result>>

\* lines 86-128: requests.post returns or raises, and the outcome is classified
Receive(i) ==
    /\ pc[i] = "await"
    /\ \E r \in ReplyChoices :
          /\ reply' = [reply EXCEPT ![i] = r]
          /\ LET c == Classify(r, full_url)
             IN  IF c.ok
                 THEN /\ assistant_response' =
                            [assistant_response EXCEPT ![i] = c.assistant_response]
                      /\ pc' = [pc EXCEPT ![i] = "respond"]
                      /\ UNCHANGED result
                 ELSE /\ Fails(i, c.error)
                      /\ UNCHANGED assistant_response
    /\ UNCHANGED <<moduleVars, inputVars, heap, parseVars, buildVars, posts>>

\* lines 130-153
Respond(i) ==
    /\ pc[i] = "respond"
    /\ LET ref == messages[i].v
           msgs == Append(heap[i][ref], Turn("assistant", assistant_response[i]))
       IN  /\ heap' = [heap EXCEPT ![i] = [@ EXCEPT ![ref] = msgs]]
           /\ result' = [result EXCEPT
                           ![i] = Returned(SuccessResponse(assistant_response[i], msgs), NoError)]
    /\ pc' = [pc EXCEPT ![i] = "done"]
    /\ UNCHANGED <<moduleVars, inputVars, parseVars, buildVars, callVars>>

Next ==
    \/ Load
    \/ \E i \in Invs :
          \/ Invoke(i)
          \/ LogStart(i)
          \/ ExtractClaims(i)
          \/ Parse(i)
          \/ Build(i)
          \/ Post(i)
          \/ Receive(i)
          \/ Respond(i)

Spec == Init /\ [][Next]_vars
SpecPair == InitPair /\ [][Next]_vars
SpecConc == InitConc /\ [][Next]_vars
SpecLoad == InitLoad /\ [][Next]_vars

-----------------------------------------------------------------------------
(* What the claims speak of, read off the inputs and the observable state *)

Done(i) == pc[i] = "done"
ReturnedWith(i, statusCode) ==
    result[i].kind = "returned" /\ result[i].response.statusCode = statusCode
SaysFailure(i) == IsSubstring("\"success\": false", result[i].response.body)

\* the request body as the caller sent it
BodyText(ev) == EventKey(ev, "body")
BodyMissing(ev) == BodyText(ev).t \in {"unset", "null"} \/ BodyText(ev) = PyStr("")
BodyDoc(ev) == JsonLoads(BodyText(ev).v)
\* missing or empty, not JSON, or without a message field
BodyInvalid(ev) ==
    \/ BodyMissing(ev)
    \/ ~BodyDoc(ev).ok
    \/ BodyDoc(ev).value.t # "dict"
    \/ "message" \notin DictKeys(BodyDoc(ev).value.v)
SentMessage(ev) == DictGet(BodyDoc(ev).value.v, "message")
\* the turns of the history the caller supplied (none when the key is left out)
SuppliedHistory(ev) ==
    IF "conversationHistory" \in DictKeys(BodyDoc(ev).value.v)
    THEN DictGet(BodyDoc(ev).value.v, "conversationHistory").v
    ELSE <<>>

\* the generation service answered 2xx with a JSON object holding generated_text
UpstreamGood(r) ==
    /\ r.kind = "response"
    /\ 200 <= r.status_code /\ r.status_code < 300
    /\ JsonLoads(r.text).ok
    /\ JsonLoads(r.text).value.t = "dict"
    /\ "generated_text" \in DictKeys(JsonLoads(r.text).value.v)
GeneratedText(r) == DictGet(JsonLoads(r.text).value.v, "generated_text")

\* the inbound headers, and the places of those named Authorization in any letter case
InboundHeaders(ev) == IF EventKey(ev, "headers").t = "dict" THEN EventKey(ev, "headers").v ELSE <<>>
AuthPlaces(ev) == {k \in DOMAIN InboundHeaders(ev) : Lower(InboundHeaders(ev)[k][1]) = "authorization"}
FixedHeaderSeq ==
    <<<<"accept", PyStr("application/json")>>, <<"Content-Type", PyStr("application/json")>>,
      <<"User-Agent", PyStr("AWS-Lambda-Function/1.0")>>>>
FixedOutboundHeaders == {FixedHeaderSeq[k] : k \in DOMAIN FixedHeaderSeq}
OtherOutboundHeaders(req) == {req.headers[k] : k \in {j \in DOMAIN req.headers : req.headers[j][1] # "Authorization"}}

\* the body of a 500 response for an error of class name typeName
GenericBody(typeName) ==
    "{\"success\": false, \"error\": \"An internal server error occurred. "
    \o "Check logs for details. Error type: " \o typeName \o "\"}"
ErrorTypeNames == {"Exception", "ValueError", "TypeError", "AttributeError", "JSONDecodeError"}

-----------------------------------------------------------------------------
(* Claims *)

\* C1: an event whose body is missing or empty, is not valid JSON, or has no
\* message field (a JSON document that is not an object included) is answered
\* 400 with success:false, never 200 or 500.  Stated for the events that carry
\* no requestContext, so that only the body decides the answer.
C1_InvalidBodyIs400 ==
    \A i \in Invs :
        (/\ result[i].kind = "returned"
         /\ "requestContext" \notin DictKeys(event[i].v)
         /\ BodyInvalid(event[i]))
        => (ReturnedWith(i, 400) /\ SaysFailure(i))

\* C2: a 200 response carries the supplied history followed by one user turn
\* with the message and one assistant turn with the generated text, in that
\* order, and the supplied history list itself is left as it was.
C2_HistoryExtended ==
    \A i \in Invs :
        ReturnedWith(i, 200) =>
            LET H == SuppliedHistory(event[i])
                g == GeneratedText(reply[i])
                turns == H \o <<Turn("user", SentMessage(event[i])), Turn("assistant", g)>>
            IN  /\ result[i].response.body =
                       JsonDumps(PyDict(<<<<"success", PyBool(TRUE)>>, <<"response", g>>,
                                          <<"conversationHistory", PyList(turns)>>>>))
                /\ heap[i][conversation_history[i].v] = H

\* C2 witness: a 200 response to a call that supplied a history of two turns
C2_Witness ==
    \E i \in Invs : ReturnedWith(i, 200) /\ Len(SuppliedHistory(event[i])) = 2

\* C3 as claimed: once the request is on the wire, an inbound Authorization
\* header (any letter case) is there with an identical value, no inbound
\* Authorization header means none outbound, and nothing else is forwarded.
C3_AuthForwardedWhenPresent ==
    \A i \in Invs :
        Len(posts[i]) > 0 =>
            LET req == posts[i][1]
                ev == event[i]
                places == AuthPlaces(ev)
            IN  /\ places # {} =>
                      /\ "Authorization" \in DictKeys(req.headers)
                      /\ \E k \in places :
                            DictGet(req.headers, "Authorization") = InboundHeaders(ev)[k][2]
                /\ places = {} => "Authorization" \notin DictKeys(req.headers)
                /\ OtherOutboundHeaders(req) = FixedOutboundHeaders

\* C3 amended: the value forwarded is that of the last inbound header named
\* Authorization in any letter case, and only when it is not empty; with no such
\* header, or an empty value, the outbound request has no Authorization header;
\* nothing else is forwarded.
C3_LastNonEmptyAuthForwarded ==
    \A i \in Invs :
        Len(posts[i]) > 0 =>
            LET req == posts[i][1]
                ev == event[i]
                places == AuthPlaces(ev)
                found == places # {}
                last == CHOOSE k \in places : \A j \in places : j <= k
            IN  /\ IF found /\ InboundHeaders(ev)[last][2].v # ""
                   THEN /\ "Authorization" \in DictKeys(req.headers)
                        /\ DictGet(req.headers, "Authorization") = InboundHeaders(ev)[last][2]
                   ELSE "Authorization" \notin DictKeys(req.headers)
                /\ OtherOutboundHeaders(req) = FixedOutboundHeaders

\* C3 witness: a request on the wire for an event whose header is spelled AUTHORIZATION
C3_Witness ==
    \E i \in Invs :
        /\ Len(posts[i]) > 0
        /\ "AUTHORIZATION" \in DictKeys(InboundHeaders(event[i]))
        /\ "Authorization" \in DictKeys(posts[i][1].headers)

\* C4: once the outbound call has ended, the answer is 200 exactly when the
\* service replied 2xx with a JSON body holding generated_text, and 500 with
\* success:false for a timeout, a connection failure, any non-2xx status, a
\* body that is not JSON or JSON without generated_text.
C4_OutcomeClassified ==
    \A i \in Invs :
        (Done(i) /\ reply[i].kind # "none") =>
            IF UpstreamGood(reply[i]) THEN ReturnedWith(i, 200)
            ELSE ReturnedWith(i, 500) /\ SaysFailure(i)

\* C5: with NGROK_URL absent or empty the import fails, and no invocation runs
\* or posts.
C5_MissingUrlIsFatal ==
    ("NGROK_URL" \notin DictKeys(environ) \/ DictGet(environ, "NGROK_URL") = "") =>
        /\ module # "loaded"
        /\ \A i \in Invs : pc[i] = "idle" /\ posts[i] = <<>>

\* C6: every invocation ends by returning a response with status 200, 400 or
\* 500; no exception leaves the handler.
C6_AlwaysReturnsResponse ==
    \A i \in Invs :
        Done(i) => /\ result[i].kind = "returned"
                   /\ result[i].response.statusCode \in {200, 400, 500}

\* C8 as claimed: an invocation whose request passed validation has performed
\* exactly one outbound POST by the time it ends.
C8_ValidatedPostsOnce ==
    \A i \in Invs : (Done(i) /\ message[i] # Unset) => Len(posts[i]) = 1

\* C8 amended: an invocation posts at most once; exactly once when the pipeline
\* reaches the outbound call (validation, the history copy and the header lookup
\* succeeded) and never when it fails before it (a 400, or a 500 raised before
\* the call); the response is produced only after the attempt has ended.
C8_AtMostOnePost ==
    \A i \in Invs :
        /\ Len(posts[i]) <= 1
        /\ ReturnedWith(i, 400) => Len(posts[i]) = 0
        /\ ReturnedWith(i, 200) => Len(posts[i]) = 1
        /\ (Done(i) /\ headers[i] # <<>>) => Len(posts[i]) = 1
        /\ (Done(i) /\ headers[i] = <<>>) => Len(posts[i]) = 0
        /\ (Len(posts[i]) = 1 /\ result[i].kind # "none") => reply[i].kind # "none"
        /\ pc[i] = "await" => result[i].kind = "none"

\* C8 witness: an invocation that ended in a 500 after its one attempt timed out
C8_Witness ==
    \E i \in Invs :
        /\ ReturnedWith(i, 500)
        /\ Len(posts[i]) = 1
        /\ reply[i].kind = "raise" /\ "Timeout" \in ExcBases(reply[i].cls)

C9_RequestContextIgnored ==
    \A i, j \in Invs :
        (/\ Done(i) /\ Done(j)
         /\ "requestContext" \notin DictKeys(event[i].v)
         /\ WithoutRequestContext(event[j]) = event[i])
        => /\ posts[i] = posts[j]
           /\ reply[i] = reply[j] => result[i].response = result[j].response

\* what invocation i must have put on the wire, going by its own event alone
OwnRequest(i) ==
    LET ev == event[i]
        places == AuthPlaces(ev)
        last == CHOOSE k \in places : \A j \in places : j <= k
    IN  [method |-> "POST",
         url |-> FullUrl(EnvironGet(environ)),
         headers |-> FixedHeaderSeq \o
                     (IF places # {}
                      THEN <<<<"Authorization", InboundHeaders(ev)[last][2]>>>>
                      ELSE <<>>),
         json |-> Payload(SentMessage(ev)),
         timeout |-> REQUEST_TIMEOUT]

\* what invocation i must return, going by its own event and reply alone
OwnResponseBody(i) ==
    IF UpstreamGood(reply[i])
    THEN JsonDumps(PyDict(<<<<"success", PyBool(TRUE)>>,
                            <<"response", GeneratedText(reply[i])>>,
                            <<"conversationHistory",
                              PyList(SuppliedHistory(event[i])
                                     \o <<Turn("user", SentMessage(event[i])),
                                          Turn("assistant", GeneratedText(reply[i]))>>)>>>>))
    ELSE GenericBody("Exception")

\* C10: under every interleaving of concurrent invocations the module values
\* are not written after the load, and each invocation's outbound request and
\* response are those its own event and its own upstream reply determine.
C10_Isolation ==
    /\ [](\A i \in Invs :
            /\ \A k \in DOMAIN posts[i] : posts[i][k] = OwnRequest(i)
            /\ Done(i) => /\ result[i].kind = "returned"
                          /\ result[i].response.body = OwnResponseBody(i))
    /\ [][module = "loaded" => (NGROK_URL' = NGROK_URL /\ full_url' = full_url)]_vars

\* C10 witness: two invocations of different events in flight at once, the
\* second answered while the first still waits for its reply
C10_Witness ==
    /\ pc[1] = "await" /\ ReturnedWith(2, 200)
    /\ SentMessage(event[1]) # SentMessage(event[2])
    /\ AuthPlaces(event[1]) # {} /\ AuthPlaces(event[2]) = {}

====
